---- MODULE Spec2Model ----
(***************************************************************************)
(* Running statistics (predeval/runstat.py): the RunStat base class, the   *)
(* Counter frequency table and the NumStat numeric accumulator, with their *)
(* add / num / merge operations.                                           *)
(*                                                                         *)
(* Python values are encoded as records of one shape, so that any two of   *)
(* them can be compared (dictionary keys, titles):                         *)
(*   [t |-> "float", f |-> <float>, s |-> "",    k |-> 0]   a float        *)
(*   [t |-> "str",   f |-> 0.0,     s |-> "abc", k |-> 0]   a string       *)
(*   [t |-> "tuple", f |-> 0.0,     s |-> "x,y", k |-> 2]   a k-tuple      *)
(* A float is [c |-> "fin", x |-> n] (the finite value n), [c |-> "inf",   *)
(* x |-> 1 or -1] or [c |-> "nan", x |-> 0].  Finite floats are integers   *)
(* with a mantissa of MantBits bits: every arithmetic result is rounded to *)
(* the nearest representable value, ties to even, as IEEE-754 does.        *)
(***************************************************************************)
EXTENDS Integers, Sequences, FiniteSets

\* Width of the float mantissa of the model (53 for a Python float).
MantBits == 3

\* Number of observations the pool may hold before add is no longer called,
\* and number of observations one accumulator may hold after a merge.
MaxOps == 3

(***************************************************************************)
(* Floats                                                                  *)
(***************************************************************************)
Fin(n) == [c |-> "fin", x |-> n]
PosInf == [c |-> "inf", x |-> 1]
NegInf == [c |-> "inf", x |-> -1]
NaN == [c |-> "nan", x |-> 0]

Abs(n) == IF n < 0 THEN -n ELSE n

Sign(n) == IF n < 0 THEN -1 ELSE IF n > 0 THEN 1 ELSE 0

RECURSIVE Pow2(_)
Pow2(e) == IF e = 0 THEN 1 ELSE 2 * Pow2(e - 1)

\* Number of bits of the natural number n.
RECURSIVE BitLen(_)
BitLen(n) == IF n = 0 THEN 0 ELSE 1 + BitLen(n \div 2)

\* The integer n rounded to MantBits significant bits, ties to even.
RoundInt(n) ==
    LET a == Abs(n)
        e == BitLen(a) - MantBits
    IN  IF e <= 0 THEN n
        ELSE LET u == Pow2(e)
                 q == a \div u
                 r == a % u
                 up == (2 * r > u) \/ (2 * r = u /\ q % 2 = 1)
             IN  Sign(n) * (IF up THEN q + 1 ELSE q) * u

isnan(a) == a.c = "nan"

\* a == b on floats: false when either is NaN.
FEq(a, b) == ~isnan(a) /\ ~isnan(b) /\ a = b

\* a < b on floats: false when either is NaN.
FLt(a, b) ==
    /\ ~isnan(a)
    /\ ~isnan(b)
    /\ CASE a.c = "fin" /\ b.c = "fin" -> a.x < b.x
         [] a.c = "inf" /\ b.c = "fin" -> a.x < 0
         [] a.c = "fin" /\ b.c = "inf" -> b.x > 0
         [] OTHER -> a.x < b.x

\* a + b on floats.
FAdd(a, b) ==
    CASE isnan(a) \/ isnan(b) -> NaN
      [] a.c = "inf" /\ b.c = "inf" -> IF a.x = b.x THEN a ELSE NaN
      [] a.c = "inf" -> a
      [] b.c = "inf" -> b
      [] OTHER -> Fin(RoundInt(a.x + b.x))

\* a * b on floats.
FMul(a, b) ==
    CASE isnan(a) \/ isnan(b) -> NaN
      [] a.c = "inf" \/ b.c = "inf" ->
            IF a.x = 0 \/ b.x = 0 THEN NaN
            ELSE IF Sign(a.x) * Sign(b.x) > 0 THEN PosInf ELSE NegInf
      [] OTHER -> Fin(RoundInt(a.x * b.x))

\* A weight (a Python int) used as an operand of float arithmetic.
IntToFloat(n) == Fin(RoundInt(n))

\* -a on floats.
FNeg(a) == [a EXCEPT !.x = -@]

\* a - b on floats.
FSub(a, b) == FAdd(a, FNeg(b))

\* The quotient n / d of two naturals (d > 0) rounded to the nearest integer,
\* ties to even.
RoundQuot(n, d) ==
    LET q == n \div d
        r == n % d
        up == (2 * r > d) \/ (2 * r = d /\ q % 2 = 1)
    IN  IF up THEN q + 1 ELSE q

\* The quotient n / d of two naturals (d > 0) rounded to the nearest float.
FloatQuot(n, d) ==
    LET e == BitLen(n \div d) - MantBits
    IN  IF e <= 0 THEN RoundQuot(n, d)
        ELSE RoundQuot(n, d * Pow2(e)) * Pow2(e)

\* a / b on floats, for b other than zero (Python raises ZeroDivisionError
\* for a zero divisor; mean and stdDev divide by a count they found not to
\* be 0).
FDiv(a, b) ==
    CASE isnan(a) \/ isnan(b) -> NaN
      [] a.c = "inf" /\ b.c = "inf" -> NaN
      [] a.c = "inf" /\ b.x # 0 -> IF b.x < 0 THEN FNeg(a) ELSE a
      [] a.c = "fin" /\ b.c = "inf" -> Fin(0)
      [] a.c = "fin" /\ b.c = "fin" /\ b.x # 0 ->
            Fin(Sign(a.x) * Sign(b.x) * FloatQuot(Abs(a.x), Abs(b.x)))

\* The square root of the natural n over the unit u, rounded to the nearest
\* multiple of u, ties to even.
SqrtBy(n, u) ==
    LET m == CHOOSE k \in 0..n :
                 k * k * u * u <= n /\ (k + 1) * (k + 1) * u * u > n
        h == (2 * m + 1) * (2 * m + 1) * u * u
        up == (h < 4 * n) \/ (h = 4 * n /\ m % 2 = 1)
    IN  (IF up THEN m + 1 ELSE m) * u

\* math.sqrt(a): [err |-> "ok", f |-> the root rounded to the nearest float],
\* or ValueError for a negative argument.
FSqrt(a) ==
    CASE isnan(a) -> [err |-> "ok", f |-> NaN]
      [] a.x < 0 -> [err |-> "ValueError", f |-> NaN]
      [] a.c = "inf" -> [err |-> "ok", f |-> PosInf]
      [] OTHER ->
            LET e == BitLen(SqrtBy(a.x, 1)) - MantBits
            IN  [err |-> "ok",
                 f |-> Fin(SqrtBy(a.x, IF e <= 0 THEN 1 ELSE Pow2(e)))]

\* sys.float_info.epsilon * a: epsilon is 2^-(MantBits-1), the distance from
\* 1.0 to the next float, and multiplying by it is dividing by 2^(MantBits-1).
TimesEpsilon(a) == FDiv(a, Fin(Pow2(MantBits - 1)))

(***************************************************************************)
(* Python values: observations and titles                                  *)
(***************************************************************************)
PyFloat(f) == [t |-> "float", f |-> f, s |-> "", k |-> 0]
PyStr(s) == [t |-> "str", f |-> Fin(0), s |-> s, k |-> 0]
PyTuple(s, k) == [t |-> "tuple", f |-> Fin(0), s |-> s, k |-> k]

\* isinstance(v, tuple) and len(v)
IsTuple(v) == v.t = "tuple"

\* float(v): [ok |-> FALSE] stands for TypeError / ValueError.  A float is
\* returned as it is, a string is parsed, a tuple is refused.
ToFloat(v) ==
    CASE v.t = "float" -> [ok |-> TRUE, f |-> v.f]
      [] v.t = "str" /\ v.s = "2" -> [ok |-> TRUE, f |-> Fin(2)]
      [] v.t = "str" /\ v.s = "8" -> [ok |-> TRUE, f |-> Fin(8)]
      [] v.t = "str" /\ v.s = "nan" -> [ok |-> TRUE, f |-> NaN]
      [] v.t = "str" /\ v.s = "inf" -> [ok |-> TRUE, f |-> PosInf]
      [] OTHER -> [ok |-> FALSE, f |-> NaN]

\* "{}(bad)".format(title)
BadTitle(title) == PyStr(title.s \o "(bad)")

(***************************************************************************)
(* Accumulators.  A call returns [obj |-> the accumulator after the call,  *)
(* err |-> "ok" or the exception raised]; an exception raised part-way     *)
(* keeps the assignments made before it, as in Python.                     *)
(***************************************************************************)
\* RunStat.__init__
NewRunStat(title) == [kind |-> "RunStat", title |-> title]

\* Counter.__init__ (no values given)
NewCounter(title) == [kind |-> "Counter", title |-> title, counts |-> <<>>]

\* self.bad = None
NoBad == [kind |-> "None"]

\* NumStat.__init__ (no values given)
NewNumStat(title) ==
    [kind |-> "NumStat", title |-> title,
     count |-> 0,
     minV |-> PosInf, minN |-> 0,
     maxV |-> NegInf, maxN |-> 0,
     sumV |-> Fin(0), sum2 |-> Fin(0),
     nanCount |-> 0,
     bad |-> NoBad]

\* self.counts.get(observation, 0)
Get(counts, o) == IF o \in DOMAIN counts THEN counts[o] ELSE 0

\* self.counts[observation] = value
Put(counts, o, value) ==
    [x \in DOMAIN counts \cup {o} |-> IF x = o THEN value ELSE counts[x]]

\* CounterAdd storing the weight of the call instead of adding it to the
\* weight held.
CounterAddOverwrite(self, observation, n) ==
    IF IsTuple(self.title)
       /\ (~IsTuple(observation) \/ self.title.k # observation.k)
    THEN [obj |-> self, err |-> "IncompatibleObservation"]
    ELSE [obj |-> [self EXCEPT !.counts = Put(self.counts, observation, n)],
          err |-> "ok"]

\* CounterAdd storing the observation before the check that refuses it.
CounterAddLateCheck(self, observation, n) ==
    [obj |-> [self EXCEPT !.counts =
                 Put(self.counts, observation,
                     Get(self.counts, observation) + n)],
     err |-> IF IsTuple(self.title)
                /\ (~IsTuple(observation) \/ self.title.k # observation.k)
             THEN "IncompatibleObservation"
             ELSE "ok"]

\* CounterAdd without the comparison of the lengths.
CounterAddNoArity(self, observation, n) ==
    IF IsTuple(self.title) /\ ~IsTuple(observation)
    THEN [obj |-> self, err |-> "IncompatibleObservation"]
    ELSE [obj |-> [self EXCEPT !.counts =
                      Put(self.counts, observation,
                          Get(self.counts, observation) + n)],
          err |-> "ok"]

\* Counter.add
CounterAdd(self, observation, n) ==
    IF IsTuple(self.title)
       /\ (~IsTuple(observation) \/ self.title.k # observation.k)
    THEN [obj |-> self, err |-> "IncompatibleObservation"]
    ELSE [obj |-> [self EXCEPT !.counts =
                      Put(self.counts, observation,
                          Get(self.counts, observation) + n)],
          err |-> "ok"]

\* sum(self.counts.itervalues())
RECURSIVE SumValues(_)
SumValues(counts) ==
    IF DOMAIN counts = {} THEN 0
    ELSE LET o == CHOOSE x \in DOMAIN counts : TRUE
         IN  counts[o] + SumValues([x \in DOMAIN counts \ {o} |-> counts[x]])

\* Counter.num
CounterNum(self) == SumValues(self.counts)

\* RunStat.merge: the title check every merge starts with.
RunStatMerge(self, rs) ==
    IF self.title # rs.title
    THEN [obj |-> self, err |-> "TitleMismatch"]
    ELSE [obj |-> self, err |-> "ok"]

\* The orders in which a dictionary with these keys may be iterated.
Orders(keys) ==
    {ord \in [1..Cardinality(keys) -> keys] :
        \A a, b \in 1..Cardinality(keys) : a # b => ord[a] # ord[b]}

\* CounterMergeLoop as self.counts.update(c.counts): the weights of c
\* replace those of self.
CounterMergeLoopUpdate(self, counts, ord, i) ==
    [obj |-> [self EXCEPT !.counts =
                 [x \in DOMAIN self.counts \cup DOMAIN counts |->
                     IF x \in DOMAIN counts THEN counts[x]
                     ELSE self.counts[x]]],
     err |-> "ok"]

\* for o,n in c.counts.iteritems(): self.add(o, n), from position i of the
\* iteration order; the first exception ends the loop.
RECURSIVE CounterMergeLoop(_, _, _, _)
CounterMergeLoop(self, counts, ord, i) ==
    IF i > Len(ord) THEN [obj |-> self, err |-> "ok"]
    ELSE LET r == CounterAdd(self, ord[i], counts[ord[i]])
         IN  IF r.err # "ok" THEN r
             ELSE CounterMergeLoop(r.obj, counts, ord, i + 1)

\* CounterMerge with the class of c checked before the titles.
CounterMergeTypeFirst(self, c, ord) ==
    IF c.kind # "Counter"
    THEN [obj |-> self, err |-> "BadMergeType"]
    ELSE LET t == RunStatMerge(self, c)
         IN  IF t.err # "ok" THEN t
             ELSE CounterMergeLoop(self, c.counts, ord, 1)

\* Counter.merge, with c.counts iterated in the order ord.
CounterMerge(self, c, ord) ==
    LET t == RunStatMerge(self, c)
    IN  IF t.err # "ok" THEN t
        ELSE IF c.kind # "Counter"
        THEN [obj |-> self, err |-> "BadMergeType"]
        ELSE CounterMergeLoop(self, c.counts, ord, 1)

\* The items of a tuple, in order; <<>> for a value that is no tuple.
Items(v) ==
    CASE v.t = "tuple" /\ v.s = "a,b" -> <<PyStr("a"), PyStr("b")>>
      [] v.t = "tuple" /\ v.s = "x,y" -> <<PyStr("x"), PyStr("y")>>
      [] v.t = "tuple" /\ v.s = "x,z" -> <<PyStr("x"), PyStr("z")>>
      [] v.t = "tuple" /\ v.s = "w,y" -> <<PyStr("w"), PyStr("y")>>
      [] v.t = "tuple" /\ v.s = "x,y,z" ->
            <<PyStr("x"), PyStr("y"), PyStr("z")>>
      [] OTHER -> <<>>

\* CounterSplitLoop with r2.add(o2): the second Counter counts the keys, not
\* their weights.
RECURSIVE CounterSplitLoopNoWeight(_, _, _, _, _, _)
CounterSplitLoopNoWeight(self, r1, r2, counts, ord, i) ==
    IF i > Len(ord) THEN [self |-> self, r1 |-> r1, r2 |-> r2, err |-> "ok"]
    ELSE LET a1 == CounterAdd(r1, Items(ord[i])[1], counts[ord[i]])
             a2 == CounterAdd(r2, Items(ord[i])[2], 1)
         IN  CounterSplitLoopNoWeight(self, a1.obj, a2.obj, counts, ord, i + 1)

\* for (o1,o2),n in self.counts.iteritems(): r1.add(o1, n); r2.add(o2, n),
\* from position i of the iteration order; the first exception (a key that
\* is no pair, an item that does not fit the title of r1 or r2) ends the
\* loop.
RECURSIVE CounterSplitLoop(_, _, _, _, _, _)
CounterSplitLoop(self, r1, r2, counts, ord, i) ==
    IF i > Len(ord) THEN [self |-> self, r1 |-> r1, r2 |-> r2, err |-> "ok"]
    ELSE IF Len(Items(ord[i])) # 2
    THEN [self |-> self, r1 |-> r1, r2 |-> r2, err |-> "ValueError"]
    ELSE LET a1 == CounterAdd(r1, Items(ord[i])[1], counts[ord[i]])
         IN  IF a1.err # "ok"
             THEN [self |-> self, r1 |-> r1, r2 |-> r2, err |-> a1.err]
             ELSE LET a2 == CounterAdd(r2, Items(ord[i])[2], counts[ord[i]])
                  IN  IF a2.err # "ok"
                      THEN [self |-> self, r1 |-> a1.obj, r2 |-> r2,
                            err |-> a2.err]
                      ELSE CounterSplitLoop(self, a1.obj, a2.obj, counts,
                                            ord, i + 1)

\* A name that is not bound to an accumulator.
Unset == [kind |-> "None"]

\* Counter.split, with self.counts iterated in the order ord: self after the
\* call and the pair (r1, r2) returned.  A title that is no pair cannot be
\* unpacked into (t1, t2).
CounterSplit(self, ord) ==
    IF Len(Items(self.title)) # 2
    THEN [self |-> self, r1 |-> Unset, r2 |-> Unset, err |-> "ValueError"]
    ELSE CounterSplitLoop(self,
                          NewCounter(Items(self.title)[1]),
                          NewCounter(Items(self.title)[2]),
                          self.counts, ord, 1)

\* MinUpdate with a tie treated as a new minimum: the multiplicity is
\* replaced by that of the candidate.
MinUpdateTieReplaces(minV, minN, v, n) ==
    IF FEq(minV, v) \/ FLt(v, minV) THEN <<v, n>>
    ELSE <<minV, minN>>

\* The extremum update of NumStat.add and NumStat.merge for the minimum:
\* the pair <<minV, minN>> after the candidate v of weight n.
MinUpdate(minV, minN, v, n) ==
    IF FEq(minV, v) THEN <<minV, minN + n>>
    ELSE IF FLt(v, minV) THEN <<v, n>>
    ELSE <<minV, minN>>

\* MaxUpdate with a tie treated as a new maximum: the multiplicity is
\* replaced by that of the candidate.
MaxUpdateTieReplaces(maxV, maxN, v, n) ==
    IF FEq(maxV, v) \/ FLt(maxV, v) THEN <<v, n>>
    ELSE <<maxV, maxN>>

\* The same for the maximum.
MaxUpdate(maxV, maxN, v, n) ==
    IF FEq(maxV, v) THEN <<maxV, maxN + n>>
    ELSE IF FLt(maxV, v) THEN <<v, n>>
    ELSE <<maxV, maxN>>

\* NumStatAdd counting a NaN as an observation too: count is increased along
\* with nanCount.
NumStatAddNaNCounted(self, v, n) ==
    LET c == ToFloat(v)
    IN  IF ~c.ok
        THEN LET bad == IF self.bad.kind = "None"
                        THEN NewCounter(BadTitle(self.title))
                        ELSE self.bad
                 r == CounterAdd(bad, v, n)
             IN  [obj |-> [self EXCEPT !.bad = r.obj], err |-> r.err]
        ELSE IF isnan(c.f)
        THEN [obj |-> [self EXCEPT !.nanCount = @ + n, !.count = @ + n],
              err |-> "ok"]
        ELSE LET mn == MinUpdate(self.minV, self.minN, c.f, n)
                 mx == MaxUpdate(self.maxV, self.maxN, c.f, n)
             IN  [obj |-> [self EXCEPT
                     !.count = @ + n,
                     !.sumV = FAdd(@, FMul(c.f, IntToFloat(n))),
                     !.sum2 = FAdd(@, FMul(FMul(c.f, c.f), IntToFloat(n))),
                     !.minV = mn[1], !.minN = mn[2],
                     !.maxV = mx[1], !.maxN = mx[2]],
                  err |-> "ok"]

\* NumStat.add
NumStatAdd(self, v, n) ==
    LET c == ToFloat(v)
    IN  IF ~c.ok
        THEN LET bad == IF self.bad.kind = "None"
                        THEN NewCounter(BadTitle(self.title))
                        ELSE self.bad
                 r == CounterAdd(bad, v, n)
             IN  [obj |-> [self EXCEPT !.bad = r.obj], err |-> r.err]
        ELSE IF isnan(c.f)
        THEN [obj |-> [self EXCEPT !.nanCount = @ + n], err |-> "ok"]
        ELSE LET mn == MinUpdate(self.minV, self.minN, c.f, n)
                 mx == MaxUpdate(self.maxV, self.maxN, c.f, n)
             IN  [obj |-> [self EXCEPT
                     !.count = @ + n,
                     !.sumV = FAdd(@, FMul(c.f, IntToFloat(n))),
                     !.sum2 = FAdd(@, FMul(FMul(c.f, c.f), IntToFloat(n))),
                     !.minV = mn[1], !.minN = mn[2],
                     !.maxV = mx[1], !.maxN = mx[2]],
                  err |-> "ok"]

\* NumStatNum without the bad bucket.
NumStatNumNoBad(self) == self.nanCount + self.count

\* NumStat.num
NumStatNum(self) ==
    self.nanCount + self.count
    + (IF self.bad.kind = "None" THEN 0 ELSE CounterNum(self.bad))

\* NumStatMergeLoop calling self.add(x), without the weight.
RECURSIVE NumStatMergeLoopNoWeight(_, _, _, _)
NumStatMergeLoopNoWeight(self, counts, ord, i) ==
    IF i > Len(ord) THEN [obj |-> self, err |-> "ok"]
    ELSE LET r == NumStatAdd(self, ord[i], 1)
         IN  IF r.err # "ok" THEN r
             ELSE NumStatMergeLoopNoWeight(r.obj, counts, ord, i + 1)

\* for x,n in ns.counts.iteritems(): self.add(x,n)
RECURSIVE NumStatMergeLoop(_, _, _, _)
NumStatMergeLoop(self, counts, ord, i) ==
    IF i > Len(ord) THEN [obj |-> self, err |-> "ok"]
    ELSE LET r == NumStatAdd(self, ord[i], counts[ord[i]])
         IN  IF r.err # "ok" THEN r
             ELSE NumStatMergeLoop(r.obj, counts, ord, i + 1)

\* NumStatMerge with the tie branches of the extrema left out: an equal
\* extremum of ns does not add its multiplicity.
NumStatMergeNoTie(self, ns, ord) ==
    LET t == RunStatMerge(self, ns)
    IN  IF t.err # "ok" THEN t
        ELSE IF ns.kind = "NumStat"
        THEN [obj |-> [self EXCEPT
                 !.count = @ + ns.count,
                 !.minV = IF FLt(ns.minV, @) THEN ns.minV ELSE @,
                 !.minN = IF FLt(ns.minV, self.minV) THEN ns.minN ELSE @,
                 !.maxV = IF FLt(@, ns.maxV) THEN ns.maxV ELSE @,
                 !.maxN = IF FLt(self.maxV, ns.maxV) THEN ns.maxN ELSE @,
                 !.sumV = FAdd(@, ns.sumV),
                 !.sum2 = FAdd(@, ns.sum2),
                 !.nanCount = @ + ns.nanCount],
              err |-> "ok"]
        ELSE IF ns.kind = "Counter"
        THEN NumStatMergeLoop(self, ns.counts, ord, 1)
        ELSE [obj |-> self, err |-> "ok"]

\* NumStatMerge taking the extrema of ns as they are, wherever those of self
\* lie.
NumStatMergeTakesExtrema(self, ns, ord) ==
    LET t == RunStatMerge(self, ns)
    IN  IF t.err # "ok" THEN t
        ELSE IF ns.kind = "NumStat"
        THEN [obj |-> [self EXCEPT
                 !.count = @ + ns.count,
                 !.minV = ns.minV, !.minN = ns.minN,
                 !.maxV = ns.maxV, !.maxN = ns.maxN,
                 !.sumV = FAdd(@, ns.sumV),
                 !.sum2 = FAdd(@, ns.sum2),
                 !.nanCount = @ + ns.nanCount],
              err |-> "ok"]
        ELSE IF ns.kind = "Counter"
        THEN NumStatMergeLoop(self, ns.counts, ord, 1)
        ELSE [obj |-> self, err |-> "ok"]

\* NumStatMerge without the addition of ns.count.
NumStatMergeNoCount(self, ns, ord) ==
    LET t == RunStatMerge(self, ns)
    IN  IF t.err # "ok" THEN t
        ELSE IF ns.kind = "NumStat"
        THEN LET mn == MinUpdate(self.minV, self.minN, ns.minV, ns.minN)
                 mx == MaxUpdate(self.maxV, self.maxN, ns.maxV, ns.maxN)
             IN  [obj |-> [self EXCEPT
                     !.minV = mn[1], !.minN = mn[2],
                     !.maxV = mx[1], !.maxN = mx[2],
                     !.sumV = FAdd(@, ns.sumV),
                     !.sum2 = FAdd(@, ns.sum2),
                     !.nanCount = @ + ns.nanCount],
                  err |-> "ok"]
        ELSE IF ns.kind = "Counter"
        THEN NumStatMergeLoop(self, ns.counts, ord, 1)
        ELSE [obj |-> self, err |-> "ok"]

\* NumStat.merge, with the counts of a Counter argument iterated in the
\* order ord.
NumStatMerge(self, ns, ord) ==
    LET t == RunStatMerge(self, ns)
    IN  IF t.err # "ok" THEN t
        ELSE IF ns.kind = "NumStat"
        THEN LET mn == MinUpdate(self.minV, self.minN, ns.minV, ns.minN)
                 mx == MaxUpdate(self.maxV, self.maxN, ns.maxV, ns.maxN)
             IN  [obj |-> [self EXCEPT
                     !.count = @ + ns.count,
                     !.minV = mn[1], !.minN = mn[2],
                     !.maxV = mx[1], !.maxN = mx[2],
                     !.sumV = FAdd(@, ns.sumV),
                     !.sum2 = FAdd(@, ns.sum2),
                     !.nanCount = @ + ns.nanCount],
                  err |-> "ok"]
        ELSE IF ns.kind = "Counter"
        THEN NumStatMergeLoop(self, ns.counts, ord, 1)
        ELSE [obj |-> self, err |-> "ok"]

\* NumStat.mean
NumStatMean(self) ==
    IF self.count = 0 THEN NaN
    ELSE FDiv(self.sumV, IntToFloat(self.count))

\* NumStat.stdDev: [err |-> "ok", f |-> the value returned], or the
\* ValueError of math.sqrt.
NumStatStdDev(self) ==
    IF self.count = 0 THEN [err |-> "ok", f |-> NaN]
    ELSE IF FLt(FSub(self.maxV, self.minV), TimesEpsilon(self.sum2))
    THEN [err |-> "ok", f |-> Fin(0)]
    ELSE FSqrt(FSub(FDiv(self.sum2, IntToFloat(self.count)),
                    FDiv(FMul(self.sumV, self.sumV),
                         IntToFloat(self.count * self.count))))

\* NumStat(title, values_weights = vw): every pair of vw added in turn to a
\* new NumStat.
RECURSIVE NumStatOf(_, _)
NumStatOf(title, vw) ==
    IF vw = <<>> THEN NewNumStat(title)
    ELSE LET k == Len(vw)
         IN  NumStatAdd(NumStatOf(title, SubSeq(vw, 1, k - 1)),
                        vw[k][1], vw[k][2]).obj

\* self.add(observation, n), dispatched on the class of self.
AddCall(self, observation, n) ==
    CASE self.kind = "Counter" -> CounterAdd(self, observation, n)
      [] self.kind = "NumStat" -> NumStatAdd(self, observation, n)
      [] OTHER -> [obj |-> self, err |-> "NotImplementedError"]

\* self.merge(other), dispatched on the class of self.
MergeCall(self, other, ord) ==
    CASE self.kind = "Counter" -> CounterMerge(self, other, ord)
      [] self.kind = "NumStat" -> NumStatMerge(self, other, ord)
      [] OTHER -> RunStatMerge(self, other)

\* self.num() of a Counter or a NumStat.
Num(self) ==
    IF self.kind = "Counter" THEN CounterNum(self) ELSE NumStatNum(self)

\* The keys a merge iterates: those of a Counter argument, none otherwise.
IterKeys(other) ==
    IF other.kind = "Counter" THEN DOMAIN other.counts ELSE {}

(***************************************************************************)
(* The program: a pool of accumulators and the calls made on them.         *)
(***************************************************************************)
VARIABLES
    obj,     \* obj[i]: accumulator i of the pool
    hist,    \* hist[i]: the <<observation, weight>> pairs contributed to i,
             \* by its own add calls and by the accumulators merged into it
    merged,  \* merged[i]: a merge call on i has succeeded
    last     \* the most recent call: [op, err]

vars == <<obj, hist, merged, last>>

Ids == DOMAIN obj

Foo == PyStr("foo")
Bar == PyStr("bar")
AB == PyTuple("a,b", 2)

\* Number of observations held by the accumulators 1..i of the pool.
RECURSIVE Held(_)
Held(i) == IF i = 0 THEN 0 ELSE Len(hist[i]) + Held(i - 1)

Total == Held(Len(obj))

InitWith(pools) ==
    /\ obj \in pools
    /\ hist = [i \in DOMAIN obj |-> <<>>]
    /\ merged = [i \in DOMAIN obj |-> FALSE]
    /\ last = [op |-> "init", err |-> "ok"]

\* The call obj[i].add(observation, n) and its record in hist and last.
Adding(i, observation, n) ==
    LET r == AddCall(obj[i], observation, n)
    IN  /\ obj' = [obj EXCEPT ![i] = r.obj]
        /\ hist' = IF r.err = "ok"
                   THEN [hist EXCEPT ![i] = Append(@, <<observation, n>>)]
                   ELSE hist
        /\ last' = [op |-> "add", err |-> r.err]
        /\ UNCHANGED merged

\* Merging with the result assigned to the argument as well as to the
\* target.
MergingBoth(i, j, ord) ==
    LET r == MergeCall(obj[i], obj[j], ord)
    IN  /\ obj' = [obj EXCEPT ![i] = r.obj, ![j] = r.obj]
        /\ hist' = IF r.err = "ok"
                   THEN [hist EXCEPT ![i] = @ \o hist[j]]
                   ELSE hist
        /\ merged' = IF r.err = "ok"
                     THEN [merged EXCEPT ![i] = TRUE]
                     ELSE merged
        /\ last' = [op |-> "merge", err |-> r.err]

\* The call obj[i].merge(obj[j]), obj[j].counts iterated in the order ord,
\* and its record in hist, merged and last.
Merging(i, j, ord) ==
    LET r == MergeCall(obj[i], obj[j], ord)
    IN  /\ obj' = [obj EXCEPT ![i] = r.obj]
        /\ hist' = IF r.err = "ok"
                   THEN [hist EXCEPT ![i] = @ \o hist[j]]
                   ELSE hist
        /\ merged' = IF r.err = "ok"
                     THEN [merged EXCEPT ![i] = TRUE]
                     ELSE merged
        /\ last' = [op |-> "merge", err |-> r.err]

\* obj[i].add(observation, n)
Add(i, observation, n) ==
    /\ Total < MaxOps
    /\ Adding(i, observation, n)

\* obj[i].merge(obj[j]), obj[j].counts iterated in the order ord
Merge(i, j, ord) ==
    /\ Len(hist[i]) + Len(hist[j]) <= MaxOps
    /\ Merging(i, j, ord)

NextWith(calls) ==
    \/ \E i \in Ids : \E c \in calls : Add(i, c[1], c[2])
    \/ \E i, j \in Ids : \E ord \in Orders(IterKeys(obj[j])) : Merge(i, j, ord)

\* Spec: a NumStat with a Counter or a RunStat of its title, and a
\* tuple-titled Counter with a scalar-titled one; numeric, NaN, text and
\* tuple observations.
Pools ==
    {<<NewNumStat(Foo), NewCounter(Foo)>>,
     <<NewNumStat(Foo), NewRunStat(Foo)>>,
     <<NewCounter(AB), NewCounter(Foo)>>}

Calls ==
    {<<PyFloat(Fin(1)), 1>>, <<PyFloat(NaN), 1>>, <<PyStr("a"), 2>>,
     <<PyStr("2"), 1>>, <<PyTuple("x,y", 2), 1>>}

Init == InitWith(Pools)

Next == NextWith(Calls)

Spec == Init /\ [][Next]_vars

\* SpecTitles: pairs of accumulators of different titles, of every pair of
\* classes.
TitlePools ==
    {<<NewNumStat(Foo), NewCounter(Bar)>>,
     <<NewNumStat(Foo), NewNumStat(Bar)>>,
     <<NewNumStat(Foo), NewRunStat(Bar)>>,
     <<NewCounter(AB), NewCounter(Foo)>>}

TitleCalls ==
    {<<PyFloat(Fin(1)), 1>>, <<PyStr("a"), 2>>, <<PyTuple("x,y", 2), 1>>}

InitTitles == InitWith(TitlePools)

NextTitles == NextWith(TitleCalls)

SpecTitles == InitTitles /\ [][NextTitles]_vars

\* SpecNum: two NumStats of one title; numbers, NaN and a non-numeric
\* observation, with weights 0, 1 and 2.
NumPools == {<<NewNumStat(Foo), NewNumStat(Foo)>>}

NumCalls ==
    {<<PyFloat(Fin(1)), 1>>, <<PyFloat(Fin(1)), 2>>, <<PyFloat(Fin(8)), 1>>,
     <<PyFloat(Fin(8)), 0>>, <<PyFloat(NaN), 1>>, <<PyStr("a"), 1>>}

InitNum == InitWith(NumPools)

NextNum == NextWith(NumCalls)

SpecNum == InitNum /\ [][NextNum]_vars

\* SpecTuple: two Counters titled by one pair; pairs, a triple and a scalar
\* as observations.
TuplePools == {<<NewCounter(AB), NewCounter(AB)>>}

TupleCalls ==
    {<<PyTuple("x,y", 2), 1>>, <<PyTuple("x,z", 2), 2>>,
     <<PyTuple("x,y,z", 3), 1>>, <<PyStr("a"), 1>>}

InitTuple == InitWith(TuplePools)

NextTuple == NextWith(TupleCalls)

SpecTuple == InitTuple /\ [][NextTuple]_vars

\* SpecCounter: three Counters of one title.
CounterPools == {<<NewCounter(Foo), NewCounter(Foo), NewCounter(Foo)>>}

CounterCalls == {<<PyStr("a"), 1>>, <<PyStr("b"), 2>>}

InitCounter == InitWith(CounterPools)

NextCounter == NextWith(CounterCalls)

SpecCounter == InitCounter /\ [][NextCounter]_vars

\* SpecSplit: Counter.test from c = Counter(('a','b')): c = obj[1] receives
\* pairs (and a triple, and a scalar, which it refuses), and
\* p1,p2 = c.split() binds obj[2] and obj[3].
SplitPools == {<<NewCounter(AB), Unset, Unset>>}

SplitCalls ==
    {<<PyTuple("x,y", 2), 1>>, <<PyTuple("x,z", 2), 2>>,
     <<PyTuple("w,y", 2), 1>>, <<PyTuple("x,y,z", 3), 1>>}

InitSplit == InitWith(SplitPools)

\* The pairs of h with each observation replaced by its item at position p.
Project(h, p) == [k \in 1..Len(h) |-> <<Items(h[k][1])[p], h[k][2]>>]

\* c.add(observation, n)
SplitAdd(observation, n) ==
    /\ Len(hist[1]) < MaxOps
    /\ Adding(1, observation, n)

\* p1,p2 = c.split(), c.counts iterated in the order ord
Split(ord) ==
    LET r == CounterSplit(obj[1], ord)
    IN  /\ obj' = IF r.err = "ok" THEN <<r.self, r.r1, r.r2>>
                  ELSE [obj EXCEPT ![1] = r.self]
        /\ hist' = IF r.err = "ok"
                   THEN <<hist[1], Project(hist[1], 1), Project(hist[1], 2)>>
                   ELSE hist
        /\ last' = [op |-> "split", err |-> r.err]
        /\ UNCHANGED merged

NextSplit ==
    \/ \E c \in SplitCalls : SplitAdd(c[1], c[2])
    \/ \E ord \in Orders(DOMAIN obj[1].counts) : Split(ord)

SpecSplit == InitSplit /\ [][NextSplit]_vars

\* SpecConst: a NumStat with a NumStat or a Counter of its title; the
\* numbers 0 and 5 (also ten at a time), the infinity that float("inf")
\* gives, and NaN.  All weights are positive.
ConstPools ==
    {<<NewNumStat(Foo), NewNumStat(Foo)>>, <<NewNumStat(Foo), NewCounter(Foo)>>}

ConstCalls ==
    {<<PyFloat(Fin(5)), 1>>, <<PyFloat(Fin(5)), 10>>, <<PyFloat(Fin(0)), 1>>,
     <<PyStr("inf"), 1>>, <<PyFloat(NaN), 1>>}

InitConst == InitWith(ConstPools)

NextConst == NextWith(ConstCalls)

SpecConst == InitConst /\ [][NextConst]_vars

\* SpecExtrema: a NumStat with a NumStat or a Counter of its title; the
\* numbers 1 (weights 1 and 2) and 8 (as a float of weight 0 and as a text
\* of weight 1), and NaN.
ExtremaPools ==
    {<<NewNumStat(Foo), NewNumStat(Foo)>>, <<NewNumStat(Foo), NewCounter(Foo)>>}

ExtremaCalls ==
    {<<PyFloat(Fin(1)), 1>>, <<PyFloat(Fin(1)), 2>>, <<PyFloat(Fin(8)), 0>>,
     <<PyStr("8"), 1>>, <<PyFloat(NaN), 1>>}

InitExtrema == InitWith(ExtremaPools)

NextExtrema == NextWith(ExtremaCalls)

SpecExtrema == InitExtrema /\ [][NextExtrema]_vars

\* SpecFrame: two NumStats, a NumStat with a Counter, and two Counters, all
\* of one title; a number, a NaN and a text.
FramePools ==
    {<<NewNumStat(Foo), NewNumStat(Foo)>>, <<NewNumStat(Foo), NewCounter(Foo)>>,
     <<NewCounter(Foo), NewCounter(Foo)>>}

FrameCalls ==
    {<<PyFloat(Fin(1)), 1>>, <<PyFloat(NaN), 1>>, <<PyStr("a"), 1>>}

InitFrame == InitWith(FramePools)

NextFrame == NextWith(FrameCalls)

SpecFrame == InitFrame /\ [][NextFrame]_vars

\* A Python int as an observation: float(n), which is also the key it has in
\* a dictionary (hash(1) == hash(1.0) and 1 == 1.0).
PyInt(n) == PyFloat(IntToFloat(n))

\* SpecTest: NumStat.test up to c.merge(d).  c = obj[1] receives the nine
\* observations of the loop, d = obj[2] the fourteen values of its
\* constructor (the two do not share state, so the calls on c and on d are
\* taken in any interleaving); then c.merge(d).
TestValues ==
    <<PyInt(1), PyInt(2), PyInt(1), PyInt(3), PyInt(0), PyInt(0), PyInt(0),
      PyInt(0), PyFloat(NaN)>>

TestValuesD ==
    <<PyInt(5), PyInt(6), PyInt(8), PyInt(3), PyInt(4), PyInt(5), PyInt(2),
      PyInt(4), PyInt(5), PyInt(6), PyInt(7), PyInt(4), PyInt(4), PyInt(5)>>

TestPools == {<<NewNumStat(Foo), NewNumStat(Foo)>>}

InitTest == InitWith(TestPools)

\* for x in [1,2,1,3,0,0,0,0,float("NaN")]: c.add(x), one iteration
TestLoop ==
    /\ ~merged[1]
    /\ Len(hist[1]) < Len(TestValues)
    /\ Adding(1, TestValues[Len(hist[1]) + 1], 1)

\* d = NumStat("foo", values=[...]): for v in values: self.add(v), one
\* iteration
TestValuesLoop ==
    /\ Len(hist[2]) < Len(TestValuesD)
    /\ Adding(2, TestValuesD[Len(hist[2]) + 1], 1)

\* c.merge(d)
TestMerge ==
    /\ ~merged[1]
    /\ Len(hist[1]) = Len(TestValues)
    /\ Len(hist[2]) = Len(TestValuesD)
    /\ Merging(1, 2, <<>>)

NextTest == TestLoop \/ TestValuesLoop \/ TestMerge

SpecTest == InitTest /\ [][NextTest]_vars

(***************************************************************************)
(* Properties                                                              *)
(***************************************************************************)
\* The fields of a NumStat that a merge of two NumStats combines.
NumFields(a) ==
    <<a.count, a.sumV, a.sum2, a.minV, a.minN, a.maxV, a.maxN, a.nanCount>>

\* The same without the two float sums.
CountFields(a) == <<a.count, a.minV, a.minN, a.maxV, a.maxN, a.nanCount>>

\* The sum of v*v*n over the valid finite observations of h, in integers.
RECURSIVE SumSq(_)
SumSq(h) ==
    IF h = <<>> THEN 0
    ELSE LET c == ToFloat(Head(h)[1])
         IN  (IF c.ok /\ c.f.c = "fin" THEN c.f.x * c.f.x * Head(h)[2] ELSE 0)
             + SumSq(Tail(h))

\* No sum of the valid observations of h is rounded: all are finite and
\* every partial sum of v*n and of v*v*n fits the mantissa.
ExactSums(h) ==
    /\ \A k \in 1..Len(h) :
          LET c == ToFloat(h[k][1]) IN c.ok => c.f.c \in {"fin", "nan"}
    /\ SumSq(h) < Pow2(MantBits)

\* C1 as stated: a NumStat that was merged into (both operands of title Foo,
\* built by add calls of observations S1 and S2) has the count, sumV, sum2,
\* minV, minN, maxV, maxN and nanCount of one NumStat that received S1 then
\* S2.  Refuted: the merge adds the partial sums, which rounds differently
\* from adding the observations one by one.
C1_MergeExact ==
    \A i \in Ids :
        obj[i].kind = "NumStat" /\ merged[i]
        => NumFields(obj[i]) = NumFields(NumStatOf(obj[i].title, hist[i]))

\* C1 amended: after merges of NumStats (integer weights), count, minV, minN,
\* maxV, maxN and nanCount are those of one NumStat that received the
\* observations of the left operand and then those of the right one; sumV
\* and sum2 are too whenever no partial sum is rounded.
C1_MergeExactUpToRounding ==
    \A i \in Ids :
        obj[i].kind = "NumStat" /\ merged[i]
        => LET ref == NumStatOf(obj[i].title, hist[i])
           IN  /\ CountFields(obj[i]) = CountFields(ref)
               /\ ExactSums(hist[i]) => NumFields(obj[i]) = NumFields(ref)

\* A merge of two non-empty NumStats has happened: the result holds valid
\* observations from both, a tie of the minimum and exact non-zero sums.
C1_Witness ==
    /\ last = [op |-> "merge", err |-> "ok"]
    /\ \E i \in Ids :
          /\ obj[i].kind = "NumStat" /\ merged[i]
          /\ Len(hist[i]) = 3
          /\ obj[i].count = 4 /\ obj[i].minN = 4 /\ obj[i].nanCount = 0
          /\ obj[i].sumV = Fin(4)
          /\ ExactSums(hist[i])
\* The step is the call obj[i].merge(obj[j]) of a NumStat with another
\* NumStat of its title.
NumStatMergeStep(i, j) ==
    /\ i # j
    /\ obj[i].kind = "NumStat"
    /\ obj[j].kind = "NumStat"
    /\ obj[i].title = obj[j].title
    /\ Merge(i, j, <<>>)

\* C2: a merge of two NumStats of one title drops no observation: num() of
\* the target after the call is its num() before plus num() of the
\* argument.  Refuted by the code: the bad bucket of the argument is not
\* merged.
C2_MergeKeepsNum ==
    [][\A i, j \in Ids :
          NumStatMergeStep(i, j)
          => Num(obj'[i]) = Num(obj[i]) + Num(obj[j])]_vars
\* The contents of the bad bucket of a NumStat (empty when there is none).
BadCounts(a) == IF a.bad.kind = "None" THEN <<>> ELSE a.bad.counts

\* The whole observable state of a NumStat.
NumState(a) == <<NumFields(a), BadCounts(a), NumStatNum(a)>>

\* a.merge(b) applied to a copy of a.
Merged(a, b) == NumStatMerge(a, b, <<>>).obj

\* i is a NumStat built by add calls alone.
AddBuilt(i) == obj[i].kind = "NumStat" /\ ~merged[i]

\* C3: for NumStats a, b, c of one title built by add calls, merging b into
\* a and a into b give the same state (fields, bad bucket, num()), and so do
\* (a with b) with c and a with (b with c).  Refuted by the code: the bad
\* bucket of the argument is not merged, so the result keeps the bad bucket
\* of the target alone.
C3_MergeCommutesAssociates ==
    \A i, j, k \in Ids :
        AddBuilt(i) /\ AddBuilt(j) /\ AddBuilt(k)
        /\ obj[i].title = obj[j].title /\ obj[j].title = obj[k].title
        => /\ NumState(Merged(obj[i], obj[j]))
              = NumState(Merged(obj[j], obj[i]))
           /\ NumState(Merged(Merged(obj[i], obj[j]), obj[k]))
              = NumState(Merged(obj[i], Merged(obj[j], obj[k])))
\* C4: NumStat.merge with an argument of its title that is neither a NumStat
\* nor a Counter fails with BadMergeType.  Refuted by the code: the call
\* returns without an exception and without effect.
C4_BadMergeTypeRaised ==
    [][\A i, j \in Ids :
          /\ obj[i].kind = "NumStat"
          /\ obj[j].kind \notin {"NumStat", "Counter"}
          /\ obj[i].title = obj[j].title
          /\ Merge(i, j, <<>>)
          => last'.err = "BadMergeType"]_vars

\* The total weight of the pairs of h.
RECURSIVE Weight(_)
Weight(h) == IF h = <<>> THEN 0 ELSE Head(h)[2] + Weight(Tail(h))

\* The pairs of h whose observation is a valid number ("valid"), NaN
\* ("nan") or not a number ("bad").
Class(o) ==
    LET c == ToFloat(o)
    IN  IF ~c.ok THEN "bad" ELSE IF isnan(c.f) THEN "nan" ELSE "valid"

Only(h, class) == SelectSeq(h, LAMBDA p : Class(p[1]) = class)

\* The pairs of h whose observation is o.
Of(h, o) == SelectSeq(h, LAMBDA p : p[1] = o)

\* The observations of h.
Observed(h) == {h[k][1] : k \in 1..Len(h)}

\* C5: an accumulator that received add calls alone has num() equal to the
\* sum of the weights passed; a Counter holds every observation with the
\* weight added for it, a NumStat counts the valid ones in count, the NaN in
\* nanCount and the others in the bad bucket.
C5_NumIsTotalWeight ==
    \A i \in Ids :
        ~merged[i] /\ obj[i].kind \in {"Counter", "NumStat"}
        => /\ Num(obj[i]) = Weight(hist[i])
           /\ obj[i].kind = "Counter"
              => /\ DOMAIN obj[i].counts = Observed(hist[i])
                 /\ \A o \in DOMAIN obj[i].counts :
                       obj[i].counts[o] = Weight(Of(hist[i], o))
           /\ obj[i].kind = "NumStat"
              => /\ obj[i].count = Weight(Only(hist[i], "valid"))
                 /\ obj[i].nanCount = Weight(Only(hist[i], "nan"))
                 /\ DOMAIN BadCounts(obj[i]) = Observed(Only(hist[i], "bad"))
                 /\ \A o \in DOMAIN BadCounts(obj[i]) :
                       BadCounts(obj[i])[o] = Weight(Of(hist[i], o))

\* A NumStat has received a valid number, a NaN and a non-numeric
\* observation of weight 2 by add calls, and num() is 4.
C5_Witness ==
    \E i \in Ids :
        /\ obj[i].kind = "NumStat" /\ ~merged[i]
        /\ last = [op |-> "add", err |-> "ok"]
        /\ obj[i].count = 1 /\ obj[i].nanCount = 1
        /\ BadCounts(obj[i]) # <<>>
        /\ Num(obj[i]) = 4

\* C6: a merge between accumulators of different titles fails with
\* TitleMismatch, whatever the classes of the target and of the argument
\* (also when the class of the argument is one the target refuses), and
\* changes nothing.
C6_TitleMismatchFirst ==
    [][\A i, j \in Ids : \A ord \in Orders(IterKeys(obj[j])) :
          obj[i].title # obj[j].title /\ Merge(i, j, ord)
          => last'.err = "TitleMismatch" /\ obj' = obj]_vars

\* A merge between a NumStat and a Counter of another title, the Counter
\* holding an observation, has failed with TitleMismatch.
C6_Witness ==
    /\ last = [op |-> "merge", err |-> "TitleMismatch"]
    /\ \E i, j \in Ids :
          /\ obj[i].kind = "Counter" /\ obj[j].kind = "NumStat"
          /\ obj[i].title # obj[j].title
          /\ obj[i].counts # <<>>

\* The exceptions of the error taxonomy.
Failures == {"TitleMismatch", "IncompatibleObservation", "BadMergeType"}

\* C7: a call that fails with TitleMismatch, IncompatibleObservation or
\* BadMergeType leaves every accumulator (target and argument) as it was.
C7_AllOrNothing == [][last'.err \in Failures => obj' = obj]_vars

\* A merge of a NumStat into a non-empty Counter of its title has failed
\* with BadMergeType.
C7_Witness ==
    /\ last = [op |-> "merge", err |-> "BadMergeType"]
    /\ \E i \in Ids : obj[i].kind = "Counter" /\ obj[i].counts # <<>>
    /\ \E j \in Ids : obj[j].kind = "NumStat" /\ obj[j].count > 0
\* All merges of the Counter b into a copy of the Counter a, one for each
\* iteration order of b.counts: the counts that result.
CountsMerged(a, b) ==
    {CounterMerge(a, b, ord).obj.counts : ord \in Orders(DOMAIN b.counts)}

\* The Counters that a.merge(b) may leave (one for each iteration order).
CountersMerged(a, b) ==
    {CounterMerge(a, b, ord).obj : ord \in Orders(DOMAIN b.counts)}

\* C8: for Counters a, b, c of one title, a.merge(b) and b.merge(a) on
\* copies give the same counts, and so do (a.merge(b)).merge(c) and
\* a.merge(b.merge(c)), whatever the iteration orders.
C8_CounterMergeCommutesAssociates ==
    \A i, j, k \in Ids :
        LET a == obj[i]
            b == obj[j]
            c == obj[k]
        IN  a.kind = "Counter" /\ b.kind = "Counter" /\ c.kind = "Counter"
            /\ a.title = b.title /\ b.title = c.title
            => /\ \A x \in CountsMerged(a, b) : \A y \in CountsMerged(b, a) :
                     x = y
               /\ \A ab \in CountersMerged(a, b) :
                  \A bc \in CountersMerged(b, c) :
                  \A x \in CountsMerged(ab, c) : \A y \in CountsMerged(a, bc) :
                     x = y

\* A merge of Counters has happened, and the pool holds three non-empty
\* Counters, two of them with different weights for one observation.
C8_Witness ==
    /\ last = [op |-> "merge", err |-> "ok"]
    /\ \A i \in Ids : obj[i].kind = "Counter" /\ obj[i].counts # <<>>
    /\ \E i, j \in Ids : \E o \in DOMAIN obj[i].counts \cap DOMAIN obj[j].counts :
          obj[i].counts[o] # obj[j].counts[o]
    /\ \E i \in Ids : merged[i] /\ Cardinality(DOMAIN obj[i].counts) = 2

\* The <<observation, weight>> pairs of counts in the order ord.
Entries(counts, ord) == [k \in 1..Len(ord) |-> <<ord[k], counts[ord[k]]>>]

\* self after one add call for each pair of vw, in turn.
RECURSIVE AddAll(_, _)
AddAll(self, vw) ==
    IF vw = <<>> THEN self
    ELSE AddAll(AddCall(self, Head(vw)[1], Head(vw)[2]).obj, Tail(vw))

\* C9: for a NumStat n and a Counter c of one title, n.merge(c) succeeds
\* and leaves n as one add(value, weight) call per entry of c leaves it
\* (valid keys in count, NaN keys in nanCount, the other keys in the bad
\* bucket), whatever the iteration order; c.merge(n) fails with
\* BadMergeType and returns c as it was.
C9_MergeAsymmetry ==
    \A i, j \in Ids :
        obj[i].kind = "NumStat" /\ obj[j].kind = "Counter"
        /\ obj[i].title = obj[j].title
        => /\ \A ord \in Orders(IterKeys(obj[j])) :
                 LET vw == Entries(obj[j].counts, ord)
                     r == MergeCall(obj[i], obj[j], ord)
                 IN  /\ r.err = "ok"
                     /\ r.obj = AddAll(obj[i], vw)
                     /\ r.obj.count = obj[i].count + Weight(Only(vw, "valid"))
                     /\ r.obj.nanCount
                        = obj[i].nanCount + Weight(Only(vw, "nan"))
                     /\ NumStatNum(r.obj) = NumStatNum(obj[i]) + Weight(vw)
           /\ MergeCall(obj[j], obj[i], <<>>)
              = [obj |-> obj[j], err |-> "BadMergeType"]

\* A Counter holding the text "2", a NaN and the text "a" of weight 2 has
\* been merged into an empty NumStat of its title.
C9_Witness ==
    /\ last = [op |-> "merge", err |-> "ok"]
    /\ \E i, j \in Ids :
          /\ obj[i].kind = "NumStat" /\ obj[j].kind = "Counter"
          /\ obj[i].title = obj[j].title
          /\ merged[i]
          /\ DOMAIN obj[j].counts = {PyStr("2"), PyFloat(NaN), PyStr("a")}
          /\ hist[i] = hist[j]
          /\ obj[i].count = 1 /\ obj[i].minV = Fin(2) /\ obj[i].maxV = Fin(2)
          /\ obj[i].nanCount = 1
          /\ BadCounts(obj[i]) = [o \in {PyStr("a")} |-> 2]
          /\ NumStatNum(obj[i]) = 4

\* Every key of a tuple-titled Counter is a tuple of the length of the title.
KeysFitTitle(a) ==
    a.kind = "Counter" /\ IsTuple(a.title)
    => \A o \in DOMAIN a.counts : IsTuple(o) /\ o.k = a.title.k

\* C10: after every add and merge call the keys of a Counter titled by a
\* k-tuple are k-tuples; an add of an observation that is no tuple, or a
\* tuple of another length, fails with IncompatibleObservation and leaves
\* counts as it was.
C10_TupleKeys ==
    [][/\ \A i \in Ids : KeysFitTitle(obj'[i])
       /\ \A i \in Ids : \A c \in TupleCalls :
             /\ obj[i].kind = "Counter" /\ IsTuple(obj[i].title)
             /\ ~IsTuple(c[1]) \/ c[1].k # obj[i].title.k
             /\ Add(i, c[1], c[2])
             => last'.err = "IncompatibleObservation" /\ obj' = obj]_vars

\* An add of a triple to a Counter titled by a pair, which holds pairs
\* obtained by add and merge calls, has failed.
C10_Witness ==
    /\ last = [op |-> "add", err |-> "IncompatibleObservation"]
    /\ \E i \in Ids :
          /\ IsTuple(obj[i].title) /\ obj[i].title.k = 2
          /\ merged[i]
          /\ Cardinality(DOMAIN obj[i].counts) = 2

\* The pairs <<observation, 1>> of the sequence vs.
Unit(vs) == [k \in 1..Len(vs) |-> <<vs[k], 1>>]

\* C11 as stated: the observations 1, 2, 1, 3, 0, 0, 0, 0, NaN added with
\* weight 1 to a new NumStat give count = 8, sumV = 7, minV = 0 with
\* minN = 5, maxV = 3 with maxN = 1, nanCount = 1 and num() = 9.  Refuted:
\* the sequence holds four zeros, so minN is 4.
C11_TestExample ==
    hist[1] = Unit(TestValues)
    => /\ obj[1].count = 8 /\ obj[1].sumV = Fin(7)
       /\ obj[1].minV = Fin(0) /\ obj[1].minN = 5
       /\ obj[1].maxV = Fin(3) /\ obj[1].maxN = 1
       /\ obj[1].nanCount = 1 /\ NumStatNum(obj[1]) = 9

\* C11 amended: the same with minN = 4, the number of zeros of the sequence.
C11_TestExampleFourZeros ==
    hist[1] = Unit(TestValues)
    => /\ obj[1].count = 8 /\ obj[1].sumV = Fin(7)
       /\ obj[1].minV = Fin(0) /\ obj[1].minN = 4
       /\ obj[1].maxV = Fin(3) /\ obj[1].maxN = 1
       /\ obj[1].nanCount = 1 /\ NumStatNum(obj[1]) = 9

\* The ninth observation of the loop, the NaN, has just been added to c.
C11_Witness ==
    /\ hist[1] = Unit(TestValues)
    /\ last = [op |-> "add", err |-> "ok"]
    /\ ~merged[1]
    /\ obj[1].nanCount = 1
    /\ Len(hist[2]) = 0

\* The marginal of counts at position p: each item found at position p of a
\* key, with the sum of the weights of the keys that have it there.
Marginal(counts, p) ==
    [o \in {Items(x)[p] : x \in DOMAIN counts} |->
        SumValues([x \in {y \in DOMAIN counts : Items(y)[p] = o} |->
                      counts[x]])]

\* C12: split() on a Counter titled by a pair (t1, t2) returns new Counters
\* r1 titled t1 and r2 titled t2 whose counts are the marginals of counts at
\* the first and at the second position, so r1.num() = r2.num() = num() of
\* the Counter, which is left as it was.
C12_SplitMarginals ==
    [][\A ord \in Orders(DOMAIN obj[1].counts) :
          Split(ord)
          => /\ last'.err = "ok"
             /\ obj'[1] = obj[1]
             /\ obj'[2] = [kind |-> "Counter", title |-> Items(obj[1].title)[1],
                           counts |-> Marginal(obj[1].counts, 1)]
             /\ obj'[3] = [kind |-> "Counter", title |-> Items(obj[1].title)[2],
                           counts |-> Marginal(obj[1].counts, 2)]
             /\ CounterNum(obj'[2]) = CounterNum(obj[1])
             /\ CounterNum(obj'[3]) = CounterNum(obj[1])]_vars

\* A Counter holding (x,y) with weight 1, (x,z) with weight 2 and (w,y)
\* with weight 1 has been split: r1 holds x with 3 and w with 1, r2 holds y
\* with 2 and z with 2.
C12_Witness ==
    /\ last = [op |-> "split", err |-> "ok"]
    /\ Cardinality(DOMAIN obj[1].counts) = 3
    /\ obj[2].counts = [o \in {PyStr("x"), PyStr("w")} |->
                           IF o = PyStr("x") THEN 3 ELSE 1]
    /\ obj[3].counts = [o \in {PyStr("y"), PyStr("z")} |-> 2]
    /\ CounterNum(obj[1]) = 4

\* C13: a NumStat that received non-numeric observations alone, by add
\* calls, has count = 0, minV = +inf, maxV = -inf and num() equal to the
\* weight added (all of it in the bad bucket); mean() and stdDev() return
\* NaN.
C13_OnlyBad ==
    \A i \in Ids :
        /\ obj[i].kind = "NumStat" /\ ~merged[i]
        /\ hist[i] # <<>>
        /\ Only(hist[i], "bad") = hist[i]
        => /\ obj[i].count = 0
           /\ obj[i].minV = PosInf /\ obj[i].maxV = NegInf
           /\ NumStatNum(obj[i]) = Weight(hist[i])
           /\ CounterNum(obj[i].bad) = Weight(hist[i])
           /\ NumStatMean(obj[i]) = NaN
           /\ NumStatStdDev(obj[i]) = [err |-> "ok", f |-> NaN]

\* A NumStat has received one text of weight 2 and nothing else.
C13_Witness ==
    /\ last = [op |-> "add", err |-> "ok"]
    /\ \E i \in Ids :
          /\ obj[i].kind = "NumStat" /\ ~merged[i]
          /\ hist[i] = <<<<PyStr("a"), 2>>>>
          /\ NumStatNum(obj[i]) = 2
          /\ obj[i].count = 0

\* The values of the valid observations of h.
ValidValues(h) == {ToFloat(o).f : o \in Observed(Only(h, "valid"))}

\* C14: stdDev() of a NumStat with count > 0 whose valid observations all
\* have one value returns 0: it returns no NaN and math.sqrt does not fail
\* on a negative radicand.  Refuted by the code: for observations that are
\* all +inf, maxV - minV is NaN, the guard does not fire and the radicand
\* inf - inf is NaN.
C14_ConstantStdDevZero ==
    \A i \in Ids :
        /\ obj[i].kind = "NumStat"
        /\ obj[i].count > 0
        /\ Cardinality(ValidValues(hist[i])) = 1
        => NumStatStdDev(obj[i]) = [err |-> "ok", f |-> Fin(0)]

\* C15: a NumStat.add call succeeds and has one of three effects, on the
\* target alone.  An observation that is no number changes the bad bucket
\* only (created at its first use, the weight added under the observation);
\* a NaN changes nanCount only (the weight added); a valid number changes
\* count, sumV, sum2 and the extrema only.
C15_AddFrames ==
    [][\A i \in Ids : \A c \in Calls :
          obj[i].kind = "NumStat" /\ Add(i, c[1], c[2])
          => LET a == obj[i]
                 b == obj'[i]
             IN  /\ last'.err = "ok"
                 /\ \A j \in Ids \ {i} : obj'[j] = obj[j]
                 /\ b.kind = a.kind /\ b.title = a.title
                 /\ Class(c[1]) = "bad"
                    => /\ NumFields(b) = NumFields(a)
                       /\ b.bad.kind = "Counter"
                       /\ b.bad.title = BadTitle(a.title)
                       /\ BadCounts(b)
                          = Put(BadCounts(a), c[1],
                                Get(BadCounts(a), c[1]) + c[2])
                 /\ Class(c[1]) = "nan"
                    => b = [a EXCEPT !.nanCount = a.nanCount + c[2]]
                 /\ Class(c[1]) = "valid"
                    => /\ b.nanCount = a.nanCount /\ b.bad = a.bad
                       /\ b.count = a.count + c[2]
                       /\ b.minV \in {a.minV, ToFloat(c[1]).f}
                       /\ b.maxV \in {a.maxV, ToFloat(c[1]).f}]_vars

\* A NumStat has taken each of the three outcomes by add calls: it holds a
\* valid number, a NaN and a bad bucket.
C15_Witness ==
    /\ last = [op |-> "add", err |-> "ok"]
    /\ \E i \in Ids :
          /\ obj[i].kind = "NumStat" /\ ~merged[i]
          /\ Len(hist[i]) = 3
          /\ obj[i].count = 1 /\ obj[i].nanCount = 1
          /\ BadCounts(obj[i]) = [o \in {PyTuple("x,y", 2)} |-> 1]

\* The total weight of the valid observations of h whose value is v.
WeightAt(h, v) ==
    Weight(SelectSeq(Only(h, "valid"), LAMBDA p : ToFloat(p[1]).f = v))

\* C16: after any add calls and merges of NumStats and Counters of its
\* title, minV of a NumStat is the least value among the valid observations
\* contributed to it (+inf when there is none) and minN is the total weight
\* of those equal to minV; maxV is the greatest (-inf when there is none)
\* and maxN the total weight of those equal to maxV.
C16_ExtremaWithMultiplicity ==
    \A i \in Ids :
        obj[i].kind = "NumStat"
        => LET values == ValidValues(hist[i])
           IN  /\ values = {} => obj[i].minV = PosInf /\ obj[i].maxV = NegInf
               /\ values # {}
                  => /\ obj[i].minV \in values
                     /\ obj[i].maxV \in values
                     /\ \A v \in values :
                           ~FLt(v, obj[i].minV) /\ ~FLt(obj[i].maxV, v)
               /\ obj[i].minN = WeightAt(hist[i], obj[i].minV)
               /\ obj[i].maxN = WeightAt(hist[i], obj[i].maxV)

\* A merge has left a NumStat with the minimum 1 of weight 1 and the
\* maximum 8 of weight 2, from three contributions.
C16_Witness ==
    /\ last = [op |-> "merge", err |-> "ok"]
    /\ \E i \in Ids :
          /\ obj[i].kind = "NumStat" /\ merged[i]
          /\ Len(hist[i]) = 3
          /\ obj[i].minV = Fin(1) /\ obj[i].minN = 1
          /\ obj[i].maxV = Fin(8) /\ obj[i].maxN = 2

\* C17: with weights that are not negative, count of a NumStat is 0 exactly
\* when minV is +inf and maxV is -inf, as at construction.  Refuted by the
\* code: add(v, 0) of a valid number leaves count at 0 and records v as
\* minV and maxV.
C17_EmptyIffNoExtremum ==
    \A i \in Ids :
        obj[i].kind = "NumStat"
        => (obj[i].count = 0
            <=> obj[i].minV = PosInf /\ obj[i].maxV = NegInf)

\* C18: with positive weights, a NumStat with count > 0 has minV <= maxV,
\* 1 <= minN <= count and 1 <= maxN <= count; minN = maxN = count when
\* minV = maxV, and minN + maxN <= count when minV < maxV.
C18_MultiplicityBounds ==
    \A i \in Ids :
        obj[i].kind = "NumStat" /\ obj[i].count > 0
        => LET a == obj[i]
           IN  /\ FLt(a.minV, a.maxV) \/ FEq(a.minV, a.maxV)
               /\ 1 <= a.minN /\ a.minN <= a.count
               /\ 1 <= a.maxN /\ a.maxN <= a.count
               /\ FEq(a.minV, a.maxV) => a.minN = a.count /\ a.maxN = a.count
               /\ FLt(a.minV, a.maxV) => a.minN + a.maxN <= a.count

\* A merge has left a NumStat with count 12 whose minimum 0 has weight 1
\* and whose maximum 5 has weight 11.
C18_Witness ==
    /\ last = [op |-> "merge", err |-> "ok"]
    /\ \E i \in Ids :
          /\ obj[i].kind = "NumStat" /\ merged[i]
          /\ obj[i].count = 12
          /\ obj[i].minV = Fin(0) /\ obj[i].minN = 1
          /\ obj[i].maxV = Fin(5) /\ obj[i].maxN = 11

\* C19: over every add and merge call with weights that are not negative,
\* minV of a NumStat does not increase, maxV does not decrease, and count,
\* nanCount and num() do not decrease; a Counter loses no key, and the
\* weight of each key and num() do not decrease.
C19_Monotone ==
    [][\A i \in Ids :
          /\ obj[i].kind = "NumStat"
             => /\ ~FLt(obj[i].minV, obj'[i].minV)
                /\ ~FLt(obj'[i].maxV, obj[i].maxV)
                /\ obj'[i].count >= obj[i].count
                /\ obj'[i].nanCount >= obj[i].nanCount
                /\ NumStatNum(obj'[i]) >= NumStatNum(obj[i])
          /\ obj[i].kind = "Counter"
             => /\ DOMAIN obj[i].counts \subseteq DOMAIN obj'[i].counts
                /\ \A o \in DOMAIN obj[i].counts :
                      obj'[i].counts[o] >= obj[i].counts[o]
                /\ CounterNum(obj'[i]) >= CounterNum(obj[i])]_vars

\* A Counter holding 1 with weight 2 and the text "8" has been merged into
\* a NumStat holding 1: the NumStat has count 4, minV 1 and maxV 8.
C19_Witness ==
    /\ last = [op |-> "merge", err |-> "ok"]
    /\ obj[1].kind = "NumStat" /\ merged[1]
    /\ obj[1].count = 4
    /\ obj[1].minV = Fin(1) /\ obj[1].maxV = Fin(8)
    /\ obj[2].kind = "Counter"
    /\ obj[2].counts = [o \in {PyFloat(Fin(1)), PyStr("8")} |->
                           IF o = PyStr("8") THEN 1 ELSE 2]

====
